---- MODULE Spec2Model ----
(***************************************************************************)
(* Model of ucl_tracker_fd.py: the Football-Data.org proxy handler         *)
(* (FDProxyHandler), the client-side requirement evaluator and the         *)
(* client-side polling loop embedded in HTML_PAGE.                         *)
(*                                                                         *)
(* Strings are sequences of symbols.  A symbol is a character or an        *)
(* indivisible run of characters ("live", "%20", "Bad Gateway").           *)
(* Optional values (Python None, JS null) are Nothing == <<>> and          *)
(* Just(v) == <<v>>.                                                       *)
(***************************************************************************)
EXTENDS Integers, Sequences, FiniteSets, TLC

Nothing == <<>>
Just(v) == <<v>>
IsJust(o) == Len(o) = 1
Val(o) == o[1]

\* ------------------------------------------------------------------ bounds
MaxFields == 2    \* fields in the query string of a client request
MaxMatches == 2   \* matches in an upstream payload
MaxTasks == 2     \* async calls (fetchLiveData, interval callbacks) in flight
MaxTimers == 2    \* interval timer ids
MaxGoals == 2     \* goals of one side in one period of an upstream score

\* ------------------------------------------------------------------- state
\* The proxy: the token read at start-up, the position of the handler, the
\* request it serves, the request and the outcome of the upstream call, and
\* the reply written to the client.
VARIABLES FD_API_TOKEN, pc, request, upstreamReq, upstreamResp, response
\* The evaluator: the upstream payload, the normalized match list and the
\* rendered results of the seven requirements.
VARIABLES fd, matches, requirementsList, evalPc
\* The page: document.hidden, whether 'load' has fired, the checkbox,
\* liveInterval and the running interval timers, the async calls in flight,
\* and the parts of the DOM the handlers write.
VARIABLES hidden, loaded, onlyLiveToggle, liveInterval, timers, tasks,
          apiStatus, refreshDisabled, standingsBody, requirementsDom

proxyVars == <<FD_API_TOKEN, pc, request, upstreamReq, upstreamResp, response>>
evalVars == <<fd, matches, requirementsList, evalPc>>
pollVars == <<hidden, loaded, onlyLiveToggle, liveInterval, timers, tasks,
              apiStatus, refreshDisabled, standingsBody, requirementsDom>>
vars == <<proxyVars, evalVars, pollVars>>

RECURSIVE SeqsUpTo(_, _)
SeqsUpTo(S, n) ==
  IF n = 0 THEN {<<>>}
  ELSE LET shorter == SeqsUpTo(S, n - 1)
       IN  shorter \cup {Append(s, x) : s \in {t \in shorter : Len(t) = n - 1}, x \in S}

RECURSIVE Concat(_)
Concat(ss) == IF ss = <<>> THEN <<>> ELSE Head(ss) \o Concat(Tail(ss))

\* =================================================================== proxy
FD_API_BASE == "https://api.football-data.org/v4"
COMPETITION_CODE == "CL"

\* Values os.getenv('FD_TOKEN') can give: unset, empty, two tokens that are
\* legal header values and two that end in a line feed.
LegalTokens == {<<"A">>, <<"B">>}
IllegalTokens == {<<"A", "LF">>, <<"B", "LF">>}
TokenValues == {Nothing, Just(<<>>)} \cup {Just(t) : t \in LegalTokens \cup IllegalTokens}

\* Raw (percent-encoded) symbols a client can put in a query value.
RawSyms == {"live", "LIVE", "d", "%20"}
FieldNames == {"mode", "dateFrom", "dateTo", "x"}
RawValues == {<<>>} \cup {<<c>> : c \in RawSyms}
\* A field "name=value" (eq) or a bare "name" without '='.
Fields == [name : FieldNames, eq : {TRUE}, value : RawValues]
            \cup [name : {"mode", "dateTo"}, eq : {FALSE}, value : {<<>>}]
Queries == SeqsUpTo(Fields, MaxFields)

StaticPaths == {"/", "/healthz", "/favicon.svg", "/favicon.ico", "/nope"}
\* do_GET reads the query of /api/matches only.
Requests == [path : {"/api/matches"}, query : Queries]
              \cup [path : StaticPaths \cup {"/api/standings"}, query : {<<>>}]

OkCodes == {200}
ErrorCodes == {429, 500}
UpstreamBodies == {<<>>, <<"U">>}
\* str(e) of the exceptions urlopen raises: plain text, and text with
\* single quotes, double quotes or backslashes in it.
TransportMessages ==
  { <<"timed out">>, <<"not valid for ", "'", "api.football-data.org", "'">>,
    <<"\"", "x", "\"">>, <<"'", "\"">>, <<"\\">> }

\* ----- urllib.parse, str.lower / String.prototype.toLowerCase
unquote_plus(s) ==
  [i \in DOMAIN s |-> CASE s[i] = "+" -> " "
                        [] s[i] = "%20" -> " "
                        [] s[i] = "%2B" -> "+"
                        [] OTHER -> s[i]]

quote_plus(s) ==
  [i \in DOMAIN s |-> CASE s[i] = " " -> "+"
                        [] s[i] = "+" -> "%2B"
                        [] OTHER -> s[i]]

\* The symbols with capitals, and their lower-case forms.
LowerCase ==
  "LIVE" :> "live" @@
  "AJAX" :> "ajax" @@
  "Ajax" :> "ajax" @@
  "Olympiacos" :> "olympiacos" @@
  "Benfica" :> "benfica" @@
  "Real Madrid" :> "real madrid" @@
  "PSV" :> "psv" @@
  "Bayern" :> "bayern" @@
  "Bodo" :> "bodo" @@
  "Atletico" :> "atletico" @@
  "Brugge" :> "brugge" @@
  "Marseille" :> "marseille" @@
  "Copenhagen" :> "copenhagen" @@
  "Barcelona" :> "barcelona" @@
  "Athletic" :> "athletic" @@
  "Sporting" :> "sporting" @@
  "AFC " :> "afc " @@
  "FC " :> "fc " @@
  " FC" :> " fc" @@
  "SL " :> "sl " @@
  " CF" :> " cf" @@
  " Munchen" :> " munchen" @@
  "FK " :> "fk " @@
  "/Glimt" :> "/glimt" @@
  "Club " :> "club " @@
  " de Madrid" :> " de madrid" @@
  " KV" :> " kv" @@
  "Olympique de " :> "olympique de " @@
  " Club" :> " club" @@
  " CP" :> " cp"

lower(s) == [i \in DOMAIN s |-> IF s[i] \in DOMAIN LowerCase THEN LowerCase[s[i]] ELSE s[i]]

\* parse_qs as it would be with keep_blank_values=True.
RECURSIVE parse_qs_keep_blank(_)
parse_qs_keep_blank(query) ==
  IF query = <<>> THEN <<>>
  ELSE <<[name |-> Head(query).name, value |-> unquote_plus(Head(query).value)]>>
         \o parse_qs_keep_blank(Tail(query))

\* parse_qs(query): the (name, decoded value) pairs of the fields that have
\* an '=' and a non-blank value, in order (keep_blank_values=False).
RECURSIVE parse_qs(_)
parse_qs(query) ==
  IF query = <<>> THEN <<>>
  ELSE LET f == Head(query)
       IN  IF f.eq /\ f.value # <<>>
           THEN <<[name |-> f.name, value |-> unquote_plus(f.value)]>> \o parse_qs(Tail(query))
           ELSE parse_qs(Tail(query))

\* qs.get(name, [None])[0]
RECURSIVE qs_get(_, _)
qs_get(qs, name) ==
  IF qs = <<>> THEN Nothing
  ELSE IF Head(qs).name = name THEN Just(Head(qs).value)
       ELSE qs_get(Tail(qs), name)

\* urllib.parse.urlencode(params)
urlencode(params) == [i \in DOMAIN params |-> [name |-> params[i].name, value |-> quote_plus(params[i].value)]]

MatchesUrl(qp) == [base |-> FD_API_BASE, path |-> <<"competitions", COMPETITION_CODE, "matches">>, query |-> qp]

LiveFilter == <<[name |-> "status", value |-> <<"IN_PLAY", ",", "PAUSED">>]>>

\* handle_matches as it would be if the live branch kept the date parameters.
handle_matches_live_with_dates(query) ==
  LET qs == parse_qs(query)
      m == qs_get(qs, "mode")
      mode == lower(IF IsJust(m) THEN Val(m) ELSE <<>>)
      date_from == qs_get(qs, "dateFrom")
      date_to == qs_get(qs, "dateTo")
      params == (IF IsJust(date_from) /\ Val(date_from) # <<>>
                 THEN <<[name |-> "dateFrom", value |-> Val(date_from)]>> ELSE <<>>)
                \o (IF IsJust(date_to) /\ Val(date_to) # <<>>
                    THEN <<[name |-> "dateTo", value |-> Val(date_to)]>> ELSE <<>>)
  IN  IF mode = <<"live">> THEN MatchesUrl(LiveFilter \o urlencode(params))
      ELSE MatchesUrl(urlencode(params))

\* handle_matches(query): the URL handed to _fd_request.
handle_matches(query) ==
  LET qs == parse_qs(query)
      m == qs_get(qs, "mode")
      mode == lower(IF IsJust(m) THEN Val(m) ELSE <<>>)
      date_from == qs_get(qs, "dateFrom")
      date_to == qs_get(qs, "dateTo")
      params == (IF IsJust(date_from) /\ Val(date_from) # <<>>
                 THEN <<[name |-> "dateFrom", value |-> Val(date_from)]>> ELSE <<>>)
                \o (IF IsJust(date_to) /\ Val(date_to) # <<>>
                    THEN <<[name |-> "dateTo", value |-> Val(date_to)]>> ELSE <<>>)
  IN  IF mode = <<"live">> THEN MatchesUrl(LiveFilter)
      ELSE MatchesUrl(urlencode(params))

\* handle_standings(): the URL handed to _fd_request.
handle_standings == [base |-> FD_API_BASE, path |-> <<"competitions", COMPETITION_CODE, "standings">>, query |-> <<>>]

\* _write_common_headers(status, content_type) followed by wfile.write(body)
Reply(status, content_type, body) ==
  [status |-> status,
   headers |-> [ContentType |-> content_type, CacheControl |-> "no-store", XContentTypeOptions |-> "nosniff"],
   body |-> body]

MissingTokenBody == <<"{", "\"", "error", "\"", ":", "\"", "Server not configured: missing FD_TOKEN", "\"", "}">>

\* repr() of a Python str: double-quoted when the text has a single quote
\* and no double quote, single-quoted otherwise; backslashes, line feeds and
\* the delimiter are escaped.
py_repr(s) ==
  LET delim == IF (\E i \in DOMAIN s : s[i] = "'") /\ ~(\E i \in DOMAIN s : s[i] = "\"")
               THEN "\"" ELSE "'"
      esc(c) == CASE c = "\\" -> <<"\\", "\\">>
                  [] c = "LF" -> <<"\\", "n">>
                  [] c = delim -> <<"\\", c>>
                  [] OTHER -> <<c>>
  IN  <<delim>> \o Concat([i \in DOMAIN s |-> esc(s[i])]) \o <<delim>>

\* repr() of a Python bytes value, as in "%r" % (value,)
py_bytes_repr(s) == <<"b">> \o py_repr(s)

\* str.replace("'", "\"")
replace_quotes(s) == [i \in DOMAIN s |-> IF s[i] = "'" THEN "\"" ELSE s[i]]

\* str({"error":"Bad Gateway","detail":str(e)}).replace("'", "\"")
BadGatewayBody(detail) ==
  replace_quotes(<<"{", "'", "error", "'", ": ", "'", "Bad Gateway", "'", ", ",
                   "'", "detail", "'", ": ">> \o py_repr(detail) \o <<"}">>)

\* http.client rejects a header value with a bare line feed before anything
\* is sent: ValueError('Invalid header value %r' % (value,)).
IllegalHeaderValue(tok) == \E i \in DOMAIN tok : tok[i] = "LF"
InvalidHeaderMessage(tok) == <<"Invalid header value ">> \o py_bytes_repr(tok)

\* ----- reading a response body as JSON (what the client's res.json() needs)
JsonEscapes == {"\"", "\\", "/", "b", "f", "n", "r", "t"}

\* A JSON string literal starting at s[i]: [ok, next, text].
RECURSIVE JsonStringFrom(_, _, _)
JsonStringFrom(s, j, text) ==
  IF j > Len(s) THEN [ok |-> FALSE, next |-> j, text |-> text]
  ELSE IF s[j] = "\"" THEN [ok |-> TRUE, next |-> j + 1, text |-> text]
  ELSE IF s[j] = "\\"
       THEN IF j + 1 <= Len(s) /\ s[j + 1] \in JsonEscapes
            THEN JsonStringFrom(s, j + 2, Append(text, s[j + 1]))
            ELSE [ok |-> FALSE, next |-> j, text |-> text]
  ELSE JsonStringFrom(s, j + 1, Append(text, s[j]))

JsonString(s, i) ==
  IF i <= Len(s) /\ s[i] = "\"" THEN JsonStringFrom(s, i + 1, <<>>)
  ELSE [ok |-> FALSE, next |-> i, text |-> <<>>]

\* The members "key": "value" of an object, from s[i]: [ok, members].
RECURSIVE JsonMembers(_, _, _)
JsonMembers(s, i, members) ==
  LET k == JsonString(s, i)
      v == JsonString(s, k.next + 1)
      n == v.next
      bad == [ok |-> FALSE, members |-> members]
  IN  IF ~k.ok \/ k.next > Len(s) \/ s[k.next] \notin {":", ": "} \/ ~v.ok \/ n > Len(s)
      THEN bad
      ELSE IF s[n] = "}"
           THEN [ok |-> n = Len(s), members |-> Append(members, [key |-> k.text, value |-> v.text])]
           ELSE IF s[n] \in {",", ", "}
                THEN JsonMembers(s, n + 1, Append(members, [key |-> k.text, value |-> v.text]))
                ELSE bad

\* A body read as a JSON object with string members: [ok, members].
JsonObject(s) ==
  IF Len(s) < 2 \/ s[1] # "{" THEN [ok |-> FALSE, members |-> <<>>]
  ELSE IF s[2] = "}" THEN [ok |-> Len(s) = 2, members |-> <<>>]
  ELSE JsonMembers(s, 2, <<>>)

JsonHasField(s, key) ==
  LET o == JsonObject(s)
  IN  o.ok /\ \E i \in DOMAIN o.members : o.members[i].key = <<key>>

\* ----- FDProxyHandler
ProxyInit ==
  /\ FD_API_TOKEN \in TokenValues
  /\ pc = "idle"
  /\ request = Nothing
  /\ upstreamReq = Nothing
  /\ upstreamResp = Nothing
  /\ response = Nothing

\* do_GET for the routes answered without the upstream API.
StaticReply(path, ico) ==
  CASE path = "/favicon.svg" -> Reply(200, "image/svg+xml; charset=utf-8", <<"FAVICON_SVG">>)
    [] path = "/favicon.ico" -> Reply(200, "image/x-icon", <<ico>>)
    [] path = "/healthz" -> Reply(200, "text/plain; charset=utf-8", <<"ok">>)
    [] path = "/" -> Reply(200, "text/html; charset=utf-8", <<"HTML_PAGE">>)
    [] OTHER -> Reply(404, "text/plain; charset=utf-8", <<"Not found">>)

IsApiPath(path) == path \in {"/api/standings", "/api/matches"}

\* The URL do_GET builds for an API route.
ApiUrl(req) == IF req.path = "/api/standings" THEN handle_standings ELSE handle_matches(req.query)

\* What urlopen gives _fd_request: a response, an HTTPError or another exception.
\* <<kind, status code, body or str(e)>>
HttpResponse(status, data) == <<"response", status, data>>
HttpError(code, data) == <<"HTTPError", code, data>>
OtherException(msg) == <<"Exception", 0, msg>>
Kind(out) == out[1]
Status(out) == out[2]
Data(out) == out[3]

\* _fd_request(url) from the return of urlopen on: the reply it writes.
FdReplyNoDefaultBody(out) ==
  CASE Kind(out) = "response" -> Reply(Status(out), "application/json", Data(out))
    [] Kind(out) = "HTTPError" -> Reply(Status(out), "application/json", Data(out))
    [] OTHER -> Reply(502, "application/json", BadGatewayBody(Data(out)))

FdReply(out) ==
  CASE Kind(out) = "response" -> Reply(Status(out), "application/json", Data(out))
    [] Kind(out) = "HTTPError" ->
         Reply(Status(out), "application/json", IF Data(out) = <<>> THEN <<"{", "}">> ELSE Data(out))
    [] OTHER -> Reply(502, "application/json", BadGatewayBody(Data(out)))

\* not FD_API_TOKEN
TokenMissing(token) == ~IsJust(token) \/ Val(token) = <<>>

\* _fd_request(url) up to the call of urlopen: the reply written before
\* anything is sent upstream, or Nothing when the request goes out.
FdRequestEarlyUnguarded(token) ==
  IF TokenMissing(token)
  THEN Just(FdReply(OtherException(<<"expected string or bytes-like object">>)))
  ELSE IF IllegalHeaderValue(Val(token))
       THEN Just(FdReply(OtherException(InvalidHeaderMessage(Val(token)))))
       ELSE Nothing

FdRequestEarly(token) ==
  IF TokenMissing(token)
  THEN Just(Reply(500, "application/json", MissingTokenBody))
  ELSE IF IllegalHeaderValue(Val(token))
       THEN Just(FdReply(OtherException(InvalidHeaderMessage(Val(token)))))
       ELSE Nothing

\* The reply of _fd_request under a token, given what urlopen returns once
\* the request is out.
ApiReply(token, out) ==
  LET early == FdRequestEarly(token)
  IN  IF IsJust(early) THEN Val(early) ELSE FdReply(out)

\* do_GET, up to the reply or to the upstream call of _fd_request.
DoGET(req, ico) ==
  /\ pc = "idle"
  /\ UNCHANGED <<evalVars, pollVars>>
  /\ request' = Just(req)
  /\ IF ~IsApiPath(req.path)
     THEN /\ response' = Just(StaticReply(req.path, ico))
          /\ upstreamReq' = Nothing
          /\ upstreamResp' = Nothing
          /\ pc' = "done"
     ELSE LET early == FdRequestEarly(FD_API_TOKEN)
          IN  IF IsJust(early)
              THEN /\ response' = Just(ApiReply(FD_API_TOKEN, Nothing))
                   /\ upstreamReq' = Nothing
                   /\ upstreamResp' = Nothing
                   /\ pc' = "done"
              ELSE /\ upstreamReq' = Just([url |-> ApiUrl(req),
                                           headers |-> [XAuthToken |-> Val(FD_API_TOKEN)]])
                   /\ upstreamResp' = Nothing
                   /\ response' = Nothing
                   /\ pc' = "urlopen"
  /\ UNCHANGED FD_API_TOKEN

\* urlopen returns or raises and _fd_request writes the reply.
Relay(out) ==
  /\ upstreamResp' = Just(out)
  /\ response' = Just(ApiReply(FD_API_TOKEN, out))
  /\ pc' = "done"
  /\ UNCHANGED <<FD_API_TOKEN, request, upstreamReq>>

\* urlopen returns a response: resp.read(), resp.getcode() are relayed.
UpstreamOk(status, data) ==
  /\ pc = "urlopen"
  /\ Relay(HttpResponse(status, data))
  /\ UNCHANGED <<evalVars, pollVars>>

\* urlopen raises HTTPError e: e.code and (e.read() or b'{}') are relayed.
UpstreamHTTPError(code, data) ==
  /\ pc = "urlopen"
  /\ Relay(HttpError(code, data))
  /\ UNCHANGED <<evalVars, pollVars>>

\* urlopen raises any other exception e with str(e) = msg.
UpstreamException(msg) ==
  /\ pc = "urlopen"
  /\ Relay(OtherException(msg))
  /\ UNCHANGED <<evalVars, pollVars>>

\* The handler returns; the server waits for the next request.
HandlerReturn ==
  /\ pc = "done"
  /\ UNCHANGED <<evalVars, pollVars>>
  /\ pc' = "idle"
  /\ request' = Nothing
  /\ upstreamReq' = Nothing
  /\ upstreamResp' = Nothing
  /\ response' = Nothing
  /\ UNCHANGED FD_API_TOKEN

ProxyNext ==
  \/ pc = "idle" /\ \E req \in Requests, ico \in {"ICO", "FAVICON_SVG"} : DoGET(req, ico)
  \/ \E status \in OkCodes, data \in UpstreamBodies : UpstreamOk(status, data)
  \/ \E code \in ErrorCodes, data \in UpstreamBodies : UpstreamHTTPError(code, data)
  \/ \E msg \in TransportMessages : UpstreamException(msg)
  \/ HandlerReturn


\* ============================================================ proxy claims
AtUrlopen == pc = "urlopen" /\ Val(request).path = "/api/matches"
ClientQuery == Val(request).query
UpstreamUrl == Val(upstreamReq).url
ApiDone == pc = "done" /\ IsApiPath(Val(request).path)

\* The fields of a query that carry a non-blank value for a name.
NonBlankIdx(query, k) == {i \in DOMAIN query : query[i].name = k /\ query[i].eq /\ query[i].value # <<>>}
FirstNonBlank(query, k) ==
  query[CHOOSE i \in NonBlankIdx(query, k) : \A j \in NonBlankIdx(query, k) : i <= j].value
ModeIsLive(query) ==
  /\ NonBlankIdx(query, "mode") # {}
  /\ FirstNonBlank(query, "mode") \in {<<"live">>, <<"LIVE">>}
UrlIdx(url, k) == {i \in DOMAIN url.query : url.query[i].name = k}
LiveUrl ==
  [base |-> "https://api.football-data.org/v4", path |-> <<"competitions", "CL", "matches">>,
   query |-> <<[name |-> "status", value |-> <<"IN_PLAY", ",", "PAUSED">>]>>]

\* C1 as stated: whenever the query of a /api/matches request has a field
\* mode=live, the URL sent upstream is the matches endpoint with the status
\* filter IN_PLAY,PAUSED and nothing else.
C1_AnyModeLiveField ==
  (AtUrlopen /\ \E i \in DOMAIN ClientQuery :
                   ClientQuery[i] = [name |-> "mode", eq |-> TRUE, value |-> <<"live">>])
    => UpstreamUrl = LiveUrl

\* C1 amended: whenever the first non-blank mode value of the query of a
\* /api/matches request is live (in any letter case), the URL sent upstream
\* is the matches endpoint with the status filter IN_PLAY,PAUSED and no
\* other parameter.
C1_FirstModeLive == (AtUrlopen /\ ModeIsLive(ClientQuery)) => UpstreamUrl = LiveUrl

C1_Witness ==
  /\ AtUrlopen
  /\ ModeIsLive(ClientQuery)
  /\ NonBlankIdx(ClientQuery, "dateFrom") # {}
  /\ UpstreamUrl = LiveUrl

\* C2 as stated: for every /api/matches request, dateFrom and dateTo each
\* appear upstream exactly when the client sent a value for them, carrying
\* the text the client sent.
C2_ForwardedUnmodified ==
  AtUrlopen =>
    \A k \in {"dateFrom", "dateTo"} :
      /\ (NonBlankIdx(ClientQuery, k) = {}) <=> (UrlIdx(UpstreamUrl, k) = {})
      /\ \A i \in UrlIdx(UpstreamUrl, k) :
           unquote_plus(UpstreamUrl.query[i].value) = unquote_plus(FirstNonBlank(ClientQuery, k))

\* C2 amended: for every /api/matches request whose mode is not live,
\* dateFrom and dateTo each appear upstream (once, and nothing else does)
\* exactly when the client sent a non-blank value for them, and the value
\* sent upstream decodes to the same text as the first non-blank value the
\* client sent.
C2_ForwardedDecoded ==
  (AtUrlopen /\ ~ModeIsLive(ClientQuery)) =>
    /\ UpstreamUrl.base = "https://api.football-data.org/v4"
    /\ UpstreamUrl.path = <<"competitions", "CL", "matches">>
    /\ \A i \in DOMAIN UpstreamUrl.query : UpstreamUrl.query[i].name \in {"dateFrom", "dateTo"}
    /\ \A k \in {"dateFrom", "dateTo"} :
         /\ Cardinality(UrlIdx(UpstreamUrl, k)) = IF NonBlankIdx(ClientQuery, k) = {} THEN 0 ELSE 1
         /\ \A i \in UrlIdx(UpstreamUrl, k) :
              unquote_plus(UpstreamUrl.query[i].value) = unquote_plus(FirstNonBlank(ClientQuery, k))

C2_Witness ==
  /\ AtUrlopen
  /\ ~ModeIsLive(ClientQuery)
  /\ NonBlankIdx(ClientQuery, "dateFrom") # {}
  /\ FirstNonBlank(ClientQuery, "dateFrom") = <<"%20">>
  /\ NonBlankIdx(ClientQuery, "dateTo") = {}
  /\ UpstreamUrl.query = <<[name |-> "dateFrom", value |-> <<"+">>]>>

\* C3: with FD_TOKEN unset (or empty), every request to /api/standings or
\* /api/matches is answered 500 with a JSON object that has an "error" field.
C3_MissingToken500 ==
  (ApiDone /\ TokenMissing(FD_API_TOKEN)) =>
    /\ Val(response).status = 500
    /\ JsonHasField(Val(response).body, "error")

C3_Witness ==
  /\ ApiDone
  /\ FD_API_TOKEN = Nothing
  /\ Val(request).path = "/api/matches"
  /\ Val(request).query # <<>>
  /\ Val(response).status = 500

\* C4: when urlopen gave an HTTP response (returned, or raised HTTPError),
\* the reply has its status code and its body, except that an HTTPError with
\* an empty body is relayed with the body {}.
C4_RelaysUpstream ==
  (pc = "done" /\ IsJust(upstreamResp) /\ Kind(Val(upstreamResp)) \in {"response", "HTTPError"}) =>
    /\ Val(response).status = Status(Val(upstreamResp))
    /\ Val(response).body =
         IF Kind(Val(upstreamResp)) = "HTTPError" /\ Data(Val(upstreamResp)) = <<>>
         THEN <<"{", "}">> ELSE Data(Val(upstreamResp))

C4_Witness ==
  /\ pc = "done"
  /\ IsJust(upstreamResp)
  /\ Kind(Val(upstreamResp)) = "HTTPError"
  /\ Data(Val(upstreamResp)) = <<>>
  /\ Val(response).status = 429
  /\ Val(response).body = <<"{", "}">>

\* C5 as stated: when the upstream call was made and failed without an HTTP
\* response, the reply is 502 and its body is a well-formed JSON object with
\* an error field and a detail string, whatever the failure message.
C5_BadGatewayJson ==
  (pc = "done" /\ IsJust(upstreamResp) /\ Kind(Val(upstreamResp)) = "Exception") =>
    /\ Val(response).status = 502
    /\ JsonObject(Val(response).body).ok
    /\ JsonHasField(Val(response).body, "error")
    /\ JsonHasField(Val(response).body, "detail")

\* C6 as stated: the reply to an API request does not depend on the value of
\* a set token: under any other set token that meets the same upstream
\* behaviour, the reply is the same.
C6_ReplyIndependentOfToken ==
  (ApiDone /\ ~TokenMissing(FD_API_TOKEN)) =>
    \A t2 \in LegalTokens \cup IllegalTokens :
      (IllegalHeaderValue(t2) <=> IllegalHeaderValue(Val(FD_API_TOKEN))) =>
        ApiReply(Just(t2), IF IsJust(upstreamResp) THEN Val(upstreamResp) ELSE Nothing) = Val(response)


\* =============================================== requirement evaluator (JS)
\* Team names as the upstream API may spell them.
AJAX == <<"AFC ", "Ajax">>
OLYMPIACOS == <<"Olympiacos", " FC">>
BENFICA == <<"SL ", "Benfica">>
REAL_MADRID == <<"Real Madrid", " CF">>
PSV == <<"PSV">>
BAYERN == <<"FC ", "Bayern", " Munchen">>
BODO == <<"FK ", "Bodo", "/Glimt">>
ATLETICO == <<"Club ", "Atletico", " de Madrid">>
BRUGGE == <<"Club ", "Brugge", " KV">>
MARSEILLE == <<"Olympique de ", "Marseille">>
COPENHAGEN == <<"FC ", "Copenhagen">>
BARCELONA == <<"FC ", "Barcelona">>
ATHLETIC == <<"Athletic", " Club">>
SPORTING == <<"Sporting", " CP">>

\* const requirements = [...]
requirements ==
  << [id |-> 1, fn |-> "checkFixture", teamA |-> <<"Ajax">>, teamB |-> <<"Olympiacos">>],
     [id |-> 2, fn |-> "checkNotWin", teamA |-> <<"Benfica">>, teamB |-> <<"Real Madrid">>],
     [id |-> 3, fn |-> "checkNotWin", teamA |-> <<"PSV">>, teamB |-> <<"Bayern">>],
     [id |-> 4, fn |-> "checkNotWin", teamA |-> <<"Bodo">>, teamB |-> <<"Atletico">>],
     [id |-> 5, fn |-> "checkNotWin", teamA |-> <<"Brugge">>, teamB |-> <<"Marseille">>],
     [id |-> 6, fn |-> "checkNotWin", teamA |-> <<"Copenhagen">>, teamB |-> <<"Barcelona">>],
     [id |-> 7, fn |-> "checkNotWin", teamA |-> <<"Athletic">>, teamB |-> <<"Sporting">>] >>

\* Upstream fixtures: the pair of every requirement (Ajax at home and, in
\* capitals, away; the first team of three other pairs at home, of the
\* other three away) and one with a single known team and no home team.
Fixtures ==
  { <<AJAX, OLYMPIACOS>>, <<OLYMPIACOS, <<"AJAX">>>>,
    <<BENFICA, REAL_MADRID>>, <<BAYERN, PSV>>, <<BODO, ATLETICO>>, <<MARSEILLE, BRUGGE>>,
    <<COPENHAGEN, BARCELONA>>, <<SPORTING, ATHLETIC>>,
    <<Nothing, AJAX>> }

\* Status and score of an upstream match: <<status, fullTime, halfTime>>,
\* a score being <<home, away>> with Nothing for null.
NoScore == <<Nothing, Nothing>>
Score(h, a) == <<Just(h), Just(a)>>
Progress ==
  { <<"TIMED", NoScore, NoScore>>,
    <<"IN_PLAY", Score(1, 0), NoScore>>,
    <<"PAUSED", Score(0, 1), Score(0, 1)>>,
    <<"FINISHED", Score(1, 0), Score(0, 0)>>,
    <<"FINISHED", Score(0, 1), Score(0, 1)>>,
    <<"FINISHED", Score(1, 1), Score(1, 0)>> }

FdTeam(name) == IF name = Nothing THEN Nothing ELSE Just([name |-> name])

\* One match of the upstream payload.
FdMatch(fx, pr) ==
  [status |-> pr[1],
   homeTeam |-> FdTeam(fx[1]),
   awayTeam |-> FdTeam(fx[2]),
   score |-> Just([fullTime |-> Just([home |-> pr[2][1], away |-> pr[2][2]]),
                   halfTime |-> Just([home |-> pr[3][1], away |-> pr[3][2]])]),
   minute |-> IF pr[1] = "IN_PLAY" THEN Just(63) ELSE Nothing]

FdMatches == {FdMatch(fx, pr) : fx \in Fixtures, pr \in Progress}

\* What res.json() gives: no matches array, or an object with one.
FdPayloads == {Nothing} \cup {Just([matches |-> ms]) : ms \in SeqsUpTo(FdMatches, MaxMatches)}

\* The score shapes of an upstream match: m.score null or an object whose
\* fullTime and halfTime are each null or an object whose home and away are
\* each a number or not a number (null).
SideScores == {Nothing} \cup {Just(g) : g \in 0..MaxGoals}
PeriodScores == {Nothing} \cup {Just([home |-> h, away |-> a]) : h \in SideScores, a \in SideScores}
FdScores == {Nothing} \cup {Just([fullTime |-> ft, halfTime |-> ht]) : ft \in PeriodScores, ht \in PeriodScores}

\* Payloads of one match, Ajax at home to Olympiacos, with every score shape.
ScorePayloads ==
  {Just([matches |-> <<[status |-> st, homeTeam |-> FdTeam(AJAX), awayTeam |-> FdTeam(OLYMPIACOS),
                        score |-> sc, minute |-> Nothing]>>]) :
     st \in {"PAUSED", "FINISHED"}, sc \in FdScores}

\* The score of one side if halfTime were looked at before fullTime.
NormalizedScoreHalfTimeFirst(score, side) ==
  IF ~IsJust(score) THEN 0
  ELSE LET ft == Val(score).fullTime
           ht == Val(score).halfTime
       IN  IF IsJust(ht) /\ IsJust(Val(ht)[side]) THEN Val(Val(ht)[side])
           ELSE IF IsJust(ft) /\ IsJust(Val(ft)[side]) THEN Val(Val(ft)[side])
           ELSE 0

\* The score of one side in normalizeFdMatches: fullTime, else halfTime, else 0.
NormalizedScore(score, side) ==
  IF ~IsJust(score) THEN 0
  ELSE LET ft == Val(score).fullTime
           ht == Val(score).halfTime
       IN  IF IsJust(ft) /\ IsJust(Val(ft)[side]) THEN Val(Val(ft)[side])
           ELSE IF IsJust(ht) /\ IsJust(Val(ht)[side]) THEN Val(Val(ht)[side])
           ELSE 0

TeamName(t) == IF IsJust(t) /\ Val(t).name # <<>> THEN Val(t).name ELSE <<>>

\* normalizeFdMatches(fd)
normalizeFdMatches(payload) ==
  IF ~IsJust(payload) THEN <<>>
  ELSE LET ms == Val(payload).matches
       IN  [i \in DOMAIN ms |->
              [status |-> ms[i].status,
               homeTeam |-> TeamName(ms[i].homeTeam),
               awayTeam |-> TeamName(ms[i].awayTeam),
               homeScore |-> NormalizedScore(ms[i].score, "home"),
               awayScore |-> NormalizedScore(ms[i].score, "away"),
               minute |-> ms[i].minute]]

\* String.prototype.includes
includes(h, t) == \E i \in 0..(Len(h) - Len(t)) : SubSeq(h, i + 1, i + Len(t)) = t

\* teamWon(m, teamName)
teamWonOrDrew(m, teamName) ==
  LET home == lower(m.homeTeam)
      away == lower(m.awayTeam)
      t == lower(teamName)
  IN  IF includes(home, t) THEN m.homeScore >= m.awayScore
      ELSE IF includes(away, t) THEN m.awayScore >= m.homeScore
      ELSE FALSE

teamWon(m, teamName) ==
  LET home == lower(m.homeTeam)
      away == lower(m.awayTeam)
      t == lower(teamName)
  IN  IF includes(home, t) THEN m.homeScore > m.awayScore
      ELSE IF includes(away, t) THEN m.awayScore > m.homeScore
      ELSE FALSE

\* formatScore(m)
formatScore(m) == <<ToString(m.homeScore), "-", ToString(m.awayScore)>>

IsPair(x, team1, team2) ==
  LET h == lower(x.homeTeam)
      a == lower(x.awayTeam)
      t1 == lower(team1)
      t2 == lower(team2)
  IN  (includes(h, t1) /\ includes(a, t2)) \/ (includes(h, t2) /\ includes(a, t1))

\* findMatch(matches, team1, team2): the first match of the pair, or null.
findMatchOneWay(ms, team1, team2) ==
  LET hit == {i \in DOMAIN ms : includes(lower(ms[i].homeTeam), lower(team1))
                                  /\ includes(lower(ms[i].awayTeam), lower(team2))}
  IN  IF hit = {} THEN Nothing
      ELSE Just(ms[CHOOSE i \in hit : \A j \in hit : i <= j])

findMatch(ms, team1, team2) ==
  LET hit == {i \in DOMAIN ms : IsPair(ms[i], team1, team2)}
  IN  IF hit = {} THEN Nothing
      ELSE Just(ms[CHOOSE i \in hit : \A j \in hit : i <= j])

Result(status, score, time) == [status |-> status, score |-> score, time |-> time]

MinuteText(m) == IF IsJust(m.minute) THEN <<ToString(Val(m.minute)), "'">> ELSE <<>>

\* checkFixture(teamA, teamB)(matches)
checkFixture(teamA, teamB, ms) ==
  LET f == findMatch(ms, teamA, teamB)
  IN  IF ~IsJust(f) THEN Result("pending", <<>>, <<>>)
      ELSE LET m == Val(f)
           IN  IF m.status = "FINISHED"
               THEN Result(IF teamWon(m, <<"Ajax">>) THEN "fulfilled" ELSE "failed", formatScore(m), <<>>)
               ELSE IF m.status \in {"IN_PLAY", "PAUSED"}
                    THEN Result("pending", formatScore(m), MinuteText(m))
                    ELSE Result("pending", <<>>, <<>>)

\* checkNotWin(teamA, teamB)(matches)
checkNotWin(teamA, teamB, ms) ==
  LET f == findMatch(ms, teamA, teamB)
  IN  IF ~IsJust(f) THEN Result("pending", <<>>, <<>>)
      ELSE LET m == Val(f)
           IN  IF m.status = "FINISHED"
               THEN Result(IF teamWon(m, teamA) THEN "failed" ELSE "fulfilled", formatScore(m), <<>>)
               ELSE IF m.status \in {"IN_PLAY", "PAUSED"}
                    THEN Result("pending", formatScore(m), MinuteText(m))
                    ELSE Result("pending", <<>>, <<>>)

\* req.checkFn(matches)
checkFn(req, ms) ==
  IF req.fn = "checkFixture" THEN checkFixture(req.teamA, req.teamB, ms)
  ELSE checkNotWin(req.teamA, req.teamB, ms)

EvalInit ==
  /\ fd \in FdPayloads
  /\ matches = <<>>
  /\ requirementsList = <<>>
  /\ evalPc = "fetched"

\* matches = normalizeFdMatches(data); renderRequirements(matches)
renderRequirements ==
  /\ evalPc = "fetched"
  /\ UNCHANGED <<proxyVars, pollVars>>
  /\ matches' = normalizeFdMatches(fd)
  /\ requirementsList' = [i \in DOMAIN requirements |-> checkFn(requirements[i], matches')]
  /\ evalPc' = "rendered"
  /\ UNCHANGED fd

EvalNext == renderRequirements

\* ======================================================== evaluator claims
\* The pairs of the seven requirements, in both orders.
TeamPairs ==
  {<<requirements[i].teamA, requirements[i].teamB>> : i \in DOMAIN requirements}
    \cup {<<requirements[i].teamB, requirements[i].teamA>> : i \in DOMAIN requirements}

\* The fixtures of the list that a pair matches, by case-insensitive
\* substring on the home and away names in either order.
Matching(ms, a, b) ==
  {i \in DOMAIN ms :
     \/ includes(lower(ms[i].homeTeam), lower(a)) /\ includes(lower(ms[i].awayTeam), lower(b))
     \/ includes(lower(ms[i].homeTeam), lower(b)) /\ includes(lower(ms[i].awayTeam), lower(a))}
Matched(ms, a, b) ==
  LET hit == Matching(ms, a, b)
  IN  ms[CHOOSE i \in hit : \A j \in hit : i <= j]
\* The goals of a team in a fixture it plays in.
ScoreOf(m, team) == IF includes(lower(m.homeTeam), lower(team)) THEN m.homeScore ELSE m.awayScore
FinishedFor(ms, a, b) ==
  LET hit == Matching(ms, a, b)
  IN  hit # {} /\ ms[CHOOSE i \in hit : \A j \in hit : i <= j].status = "FINISHED"

\* C7 as stated: for every team pair A, B whose fixture is finished,
\* checkFixture(A, B) is fulfilled when A scored more than B and failed when
\* B scored more than A, whichever side is at home.
C7_MustBeatAnyPair ==
  evalPc = "rendered" =>
    \A p \in TeamPairs :
      FinishedFor(matches, p[1], p[2]) =>
        LET m == Matched(matches, p[1], p[2])
            r == checkFixture(p[1], p[2], matches)
        IN  /\ ScoreOf(m, p[1]) > ScoreOf(m, p[2]) => r.status = "fulfilled"
            /\ ScoreOf(m, p[2]) > ScoreOf(m, p[1]) => r.status = "failed"

\* C8: each rendered "must not beat" requirement (2 to 7) whose fixture is
\* finished is failed exactly when its team A scored more than team B, and
\* fulfilled otherwise, whichever side A plays on.
C8_MustNotBeat ==
  evalPc = "rendered" =>
    \A i \in DOMAIN requirements :
      (requirements[i].fn = "checkNotWin"
         /\ FinishedFor(matches, requirements[i].teamA, requirements[i].teamB)) =>
        LET m == Matched(matches, requirements[i].teamA, requirements[i].teamB)
        IN  requirementsList[i].status =
              IF ScoreOf(m, requirements[i].teamA) > ScoreOf(m, requirements[i].teamB)
              THEN "failed" ELSE "fulfilled"

\* PSV wins away at Bayern (failed) and Benfica draws at home (fulfilled).
C8_Witness ==
  /\ evalPc = "rendered"
  /\ Len(matches) = 2
  /\ FinishedFor(matches, <<"PSV">>, <<"Bayern">>)
  /\ includes(lower(Matched(matches, <<"PSV">>, <<"Bayern">>).awayTeam), <<"psv">>)
  /\ Matched(matches, <<"PSV">>, <<"Bayern">>).awayScore
       > Matched(matches, <<"PSV">>, <<"Bayern">>).homeScore
  /\ requirementsList[3].status = "failed"
  /\ FinishedFor(matches, <<"Benfica">>, <<"Real Madrid">>)
  /\ Matched(matches, <<"Benfica">>, <<"Real Madrid">>).homeScore
       = Matched(matches, <<"Benfica">>, <<"Real Madrid">>).awayScore
  /\ requirementsList[2].status = "fulfilled"

\* C9: each of the seven rendered requirements is pending exactly when no
\* fixture of the match list matches its pair or the first matching fixture
\* is not FINISHED.
C9_PendingIffUnfinished ==
  evalPc = "rendered" =>
    \A i \in DOMAIN requirements :
      requirementsList[i].status = "pending"
        <=> ~FinishedFor(matches, requirements[i].teamA, requirements[i].teamB)

\* A list with a finished fixture of one requirement, an unfinished fixture
\* of another, and no fixture of the rest.
C9_Witness ==
  /\ evalPc = "rendered"
  /\ Len(matches) = 2
  /\ FinishedFor(matches, <<"Ajax">>, <<"Olympiacos">>)
  /\ requirementsList[1].status # "pending"
  /\ Matching(matches, <<"Athletic">>, <<"Sporting">>) # {}
  /\ Matched(matches, <<"Athletic">>, <<"Sporting">>).status = "IN_PLAY"
  /\ requirementsList[7].status = "pending"
  /\ \A i \in 2..6 : /\ Matching(matches, requirements[i].teamA, requirements[i].teamB) = {}
                     /\ requirementsList[i].status = "pending"

\* The number an upstream score carries for a period and a side, if any.
UpstreamGoals(score, period, side) ==
  IF IsJust(score) /\ IsJust(Val(score)[period]) THEN Val(Val(score)[period])[side] ELSE Nothing

\* C13: normalizeFdMatches keeps the number of matches, and each side of each
\* match gets its numeric fullTime value whatever halfTime holds, without
\* one its numeric halfTime value, and without either 0.
C13_FullTimeElseHalfTime ==
  (evalPc = "rendered" /\ IsJust(fd)) =>
    /\ Len(matches) = Len(Val(fd).matches)
    /\ \A i \in DOMAIN matches :
         LET sc == Val(fd).matches[i].score
             m == [home |-> matches[i].homeScore, away |-> matches[i].awayScore]
         IN  \A side \in {"home", "away"} :
               LET ft == UpstreamGoals(sc, "fullTime", side)
                   ht == UpstreamGoals(sc, "halfTime", side)
               IN  m[side] = IF IsJust(ft) THEN Val(ft) ELSE IF IsJust(ht) THEN Val(ht) ELSE 0

\* fullTime 2,1 over halfTime 0,1 is normalized to 2,1.
C13_Witness ==
  /\ evalPc = "rendered"
  /\ IsJust(fd)
  /\ Len(matches) = 1
  /\ Val(fd).matches[1].score =
       Just([fullTime |-> Just([home |-> Just(2), away |-> Just(1)]),
             halfTime |-> Just([home |-> Just(0), away |-> Just(1)])])
  /\ matches[1].homeScore = 2
  /\ matches[1].awayScore = 1

\* ==================================================== polling loop (JS)
Slots == 1..MaxTasks
TimerIds == 1..MaxTimers
\* liveInterval = 0 stands for null; timers is the set of interval timers
\* that setInterval has started and clearInterval has not cleared.
Idle == [kind |-> "idle", at |-> "", onlyLive |-> FALSE]
Task(kind, at, onlyLive) == [kind |-> kind, at |-> at, onlyLive |-> onlyLive]
HasFreeSlot == \E s \in Slots : tasks[s] = Idle
FreeSlot == CHOOSE s \in Slots : tasks[s] = Idle /\ \A t \in Slots : tasks[t] = Idle => s <= t

\* What a fetch of the client gives: a response that is ok (for the match
\* endpoints: with or without matches), a response that is not ok, or a
\* rejected promise (also a body that res.json() cannot read).
StandingsOutcomes == {"ok", "notok", "throws"}
MatchesOutcomes == {"matches", "empty", "notok", "throws"}

\* The page as the script has set it up, before any event.
PollInit ==
  /\ hidden = FALSE
  /\ loaded = FALSE
  /\ onlyLiveToggle = FALSE
  /\ liveInterval = 0
  /\ timers = {}
  /\ tasks = [s \in Slots |-> Idle]
  /\ apiStatus = "ready"
  /\ refreshDisabled = FALSE
  /\ standingsBody = "placeholder"
  /\ requirementsDom = "empty"

\* The timers if clearInterval were never called.
NeverCleared == timers

\* clearInterval(liveInterval) when liveInterval is set
Cleared == IF liveInterval # 0 THEN timers \ {liveInterval} ELSE timers

\* stopLivePolling()
stopLivePolling ==
  /\ timers' = Cleared
  /\ liveInterval' = 0

\* startLivePolling(): clears the current timer and starts a new one.
startLivePolling ==
  /\ TimerIds \ Cleared # {}
  /\ LET id == CHOOSE t \in TimerIds \ Cleared : \A u \in TimerIds \ Cleared : t <= u
     IN  /\ liveInterval' = id
         /\ timers' = Cleared \cup {id}

\* fetchLiveData() up to its first await: fetch('/api/standings') is out.
BeginFetchLiveData ==
  /\ HasFreeSlot
  /\ refreshDisabled' = TRUE
  /\ apiStatus' = "loading"
  /\ tasks' = [tasks EXCEPT ![FreeSlot] = Task("fetchLiveData", "standings", FALSE)]

\* window 'load' listener
Load ==
  /\ UNCHANGED <<proxyVars, evalVars>>
  /\ ~loaded
  /\ loaded' = TRUE
  /\ BeginFetchLiveData
  /\ UNCHANGED <<hidden, onlyLiveToggle, liveInterval, timers, standingsBody, requirementsDom>>

\* onclick of the refresh button (a visible page, the button enabled)
ClickRefresh ==
  /\ UNCHANGED <<proxyVars, evalVars>>
  /\ ~hidden
  /\ ~refreshDisabled
  /\ BeginFetchLiveData
  /\ UNCHANGED <<hidden, loaded, onlyLiveToggle, liveInterval, timers, standingsBody, requirementsDom>>

\* The user flips the checkbox; its 'change' listener exists once loaded.
ToggleChange ==
  /\ UNCHANGED <<proxyVars, evalVars>>
  /\ ~hidden
  /\ onlyLiveToggle' = ~onlyLiveToggle
  /\ IF loaded
     THEN stopLivePolling /\ BeginFetchLiveData
     ELSE UNCHANGED <<liveInterval, timers, refreshDisabled, apiStatus, tasks>>
  /\ UNCHANGED <<hidden, loaded, standingsBody, requirementsDom>>

\* 'visibilitychange' listener
VisibilityChange ==
  /\ UNCHANGED <<proxyVars, evalVars>>
  /\ hidden' = ~hidden
  /\ IF hidden' THEN stopLivePolling ELSE startLivePolling
  /\ UNCHANGED <<loaded, onlyLiveToggle, tasks, apiStatus, refreshDisabled, standingsBody, requirementsDom>>

\* An interval timer fires: the callback runs to fetch('/api/matches?mode=live').
TimerTick(id) ==
  /\ UNCHANGED <<proxyVars, evalVars>>
  /\ id \in timers
  /\ HasFreeSlot
  /\ tasks' = [tasks EXCEPT ![FreeSlot] = Task("poll", "live", onlyLiveToggle)]
  /\ UNCHANGED <<hidden, loaded, onlyLiveToggle, liveInterval, timers,
                 apiStatus, refreshDisabled, standingsBody, requirementsDom>>

\* fetchLiveData: catch and finally
FetchLiveDataFails(s) ==
  /\ apiStatus' = "error"
  /\ refreshDisabled' = FALSE
  /\ tasks' = [tasks EXCEPT ![s] = Idle]
  /\ UNCHANGED <<liveInterval, timers, requirementsDom>>

\* fetchLiveData from renderRequirements(matches) to the end.  The calls
\* stopLivePolling(); startLivePolling() together clear the current timer
\* and start a new one, which is what startLivePolling alone does.
FetchLiveDataRenders(s) ==
  /\ requirementsDom' = "rendered"
  /\ apiStatus' = "success"
  /\ startLivePolling
  /\ refreshDisabled' = FALSE
  /\ tasks' = [tasks EXCEPT ![s] = Idle]

\* fetchLiveData: the standings fetch settles.
FetchLiveDataStandings(s, out) ==
  /\ UNCHANGED <<proxyVars, evalVars>>
  /\ tasks[s].kind = "fetchLiveData" /\ tasks[s].at = "standings"
  /\ IF out = "ok"
     THEN /\ standingsBody' = "rendered"
          /\ tasks' = [tasks EXCEPT ![s] = Task("fetchLiveData", "live", onlyLiveToggle)]
          /\ UNCHANGED <<liveInterval, timers, apiStatus, refreshDisabled, requirementsDom>>
     ELSE FetchLiveDataFails(s) /\ UNCHANGED standingsBody
  /\ UNCHANGED <<hidden, loaded, onlyLiveToggle>>

\* fetchLiveData: the fetch of the live matches settles.
FetchLiveDataLive(s, out) ==
  /\ UNCHANGED <<proxyVars, evalVars>>
  /\ tasks[s].kind = "fetchLiveData" /\ tasks[s].at = "live"
  /\ IF out = "throws" \/ (tasks[s].onlyLive /\ out = "notok")
     THEN FetchLiveDataFails(s)
     ELSE IF tasks[s].onlyLive \/ out = "matches"
          THEN FetchLiveDataRenders(s)
          ELSE /\ tasks' = [tasks EXCEPT ![s] = Task("fetchLiveData", "today", FALSE)]
               /\ UNCHANGED <<liveInterval, timers, apiStatus, refreshDisabled, requirementsDom>>
  /\ UNCHANGED <<hidden, loaded, onlyLiveToggle, standingsBody>>

\* fetchLiveData: the fetch of today's fixtures settles.
FetchLiveDataToday(s, out) ==
  /\ UNCHANGED <<proxyVars, evalVars>>
  /\ tasks[s].kind = "fetchLiveData" /\ tasks[s].at = "today"
  /\ IF out \in {"throws", "notok"} THEN FetchLiveDataFails(s) ELSE FetchLiveDataRenders(s)
  /\ UNCHANGED <<hidden, loaded, onlyLiveToggle, standingsBody>>

\* interval callback: catch
PollFails(s) ==
  /\ apiStatus' = "error"
  /\ tasks' = [tasks EXCEPT ![s] = Idle]
  /\ UNCHANGED requirementsDom

\* interval callback: renderRequirements(matches) and the time stamp
PollRenders(s) ==
  /\ requirementsDom' = "rendered"
  /\ tasks' = [tasks EXCEPT ![s] = Idle]
  /\ UNCHANGED apiStatus

\* interval callback: the fetch of the live matches settles.
PollLive(s, out) ==
  /\ UNCHANGED <<proxyVars, evalVars>>
  /\ tasks[s].kind = "poll" /\ tasks[s].at = "live"
  /\ IF out = "throws" THEN PollFails(s)
     ELSE IF tasks[s].onlyLive \/ out = "matches" THEN PollRenders(s)
          ELSE /\ tasks' = [tasks EXCEPT ![s] = Task("poll", "today", FALSE)]
               /\ UNCHANGED <<apiStatus, requirementsDom>>
  /\ UNCHANGED <<hidden, loaded, onlyLiveToggle, liveInterval, timers, refreshDisabled, standingsBody>>

\* interval callback: the fetch of today's fixtures settles.
PollToday(s, out) ==
  /\ UNCHANGED <<proxyVars, evalVars>>
  /\ tasks[s].kind = "poll" /\ tasks[s].at = "today"
  /\ IF out = "throws" THEN PollFails(s) ELSE PollRenders(s)
  /\ UNCHANGED <<hidden, loaded, onlyLiveToggle, liveInterval, timers, refreshDisabled, standingsBody>>

PollNext ==
  \/ Load
  \/ ClickRefresh
  \/ ToggleChange
  \/ VisibilityChange
  \/ \E id \in TimerIds : TimerTick(id)
  \/ \E s \in Slots, out \in StandingsOutcomes : FetchLiveDataStandings(s, out)
  \/ \E s \in Slots, out \in MatchesOutcomes : FetchLiveDataLive(s, out)
  \/ \E s \in Slots, out \in MatchesOutcomes : FetchLiveDataToday(s, out)
  \/ \E s \in Slots, out \in MatchesOutcomes : PollLive(s, out)
  \/ \E s \in Slots, out \in MatchesOutcomes : PollToday(s, out)

\* ========================================================== polling claims
\* C10 as stated: while the page is hidden no poll interval timer is active,
\* also when a fetchLiveData started on a visible page ends on a hidden one.
C10_NoTimerWhileHidden == hidden => timers = {}

\* C11 as stated: after a failed fetch the status banner shows the failure
\* and polling goes on, so whenever the banner shows a failure on a visible
\* page a poll interval timer is active.
C11_PollingContinuesAfterFailure == (apiStatus = "error" /\ ~hidden) => timers # {}

\* C12 as stated: every run started by the load or by a timer tick renders
\* the standings table and the checklist, so whenever the checklist has been
\* rendered the standings table has been rendered too.
C12_ChecklistWithStandings == requirementsDom = "rendered" => standingsBody = "rendered"

\* C14: at most one poll interval timer is active, and liveInterval is set
\* exactly when a timer is active, which is then the one it names.
C14_OneTimerHeld ==
  /\ Cardinality(timers) <= 1
  /\ liveInterval # 0 <=> timers # {}
  /\ liveInterval # 0 => timers = {liveInterval}

\* A fetchLiveData that ended on a hidden page has started a timer after the
\* visibilitychange listener stopped the previous one, with the callback of
\* a tick of that previous timer still in flight.
C14_Witness ==
  /\ hidden
  /\ liveInterval # 0
  /\ timers = {liveInterval}
  /\ \E s \in Slots : tasks[s].kind = "poll"

\* ========================================================== specifications
ProxyIdle ==
  /\ FD_API_TOKEN = Nothing
  /\ pc = "idle"
  /\ request = Nothing
  /\ upstreamReq = Nothing
  /\ upstreamResp = Nothing
  /\ response = Nothing

EvalIdle ==
  /\ fd = Nothing
  /\ matches = <<>>
  /\ requirementsList = <<>>
  /\ evalPc = "rendered"

PollIdle ==
  /\ hidden = FALSE
  /\ loaded = FALSE
  /\ onlyLiveToggle = FALSE
  /\ liveInterval = 0
  /\ timers = {}
  /\ tasks = [s \in Slots |-> Idle]
  /\ apiStatus = "ready"
  /\ refreshDisabled = FALSE
  /\ standingsBody = "placeholder"
  /\ requirementsDom = "empty"

\* The proxy server.
Init == ProxyInit /\ EvalIdle /\ PollIdle
Next == ProxyNext
Spec == Init /\ [][Next]_vars

\* The requirement evaluator applied to upstream payloads.
InitEval == EvalInit /\ ProxyIdle /\ PollIdle
NextEval == EvalNext
SpecEval == InitEval /\ [][NextEval]_vars

\* normalizeFdMatches and the evaluator applied to every score shape.
InitNorm ==
  /\ fd \in ScorePayloads
  /\ matches = <<>>
  /\ requirementsList = <<>>
  /\ evalPc = "fetched"
  /\ ProxyIdle
  /\ PollIdle
NextNorm == EvalNext
SpecNorm == InitNorm /\ [][NextNorm]_vars

\* The page: load, user events, timers and fetches.
InitPoll == PollInit /\ ProxyIdle /\ EvalIdle
NextPoll == PollNext
SpecPoll == InitPoll /\ [][NextPoll]_vars

====
